---- MODULE Spec2Model ----
(***************************************************************************)
(* A model of scripts/scan_and_build.py: the inbox scanner, the publisher  *)
(* of large and thumbnail renditions, the OCR reconciler with its cache,   *)
(* the asset migration and the renaming of source files.                   *)
(*                                                                         *)
(* File names, model codes and recognised texts are sequences of one-      *)
(* character strings, so that the regular expressions of the source are    *)
(* computed character by character.                                        *)
(***************************************************************************)
EXTENDS Integers, Sequences, FiniteSets, TLC

(***************************************************************************)
(* Characters.  The alphabet is the ASCII subset the regular expressions   *)
(* of the source distinguish; Chars lists it in code-point order.          *)
(***************************************************************************)
Chars ==
  << " ", "#", "-", ".",
     "0", "1", "2", "3", "4", "5", "6", "7", "8", "9", ":",
     "A", "B", "C", "D", "E", "F", "G", "H", "I", "J", "K", "L", "M",
     "N", "O", "P", "Q", "R", "S", "T", "U", "V", "W", "X", "Y", "Z",
     "_",
     "a", "b", "c", "d", "e", "f", "g", "h", "i", "j", "k", "l", "m",
     "n", "o", "p", "q", "r", "s", "t", "u", "v", "w", "x", "y", "z" >>

Ord(c) == CHOOSE i \in 1..Len(Chars) : Chars[i] = c

Digits == {"0", "1", "2", "3", "4", "5", "6", "7", "8", "9"}

UpperLetters ==
  {"A", "B", "C", "D", "E", "F", "G", "H", "I", "J", "K", "L", "M",
   "N", "O", "P", "Q", "R", "S", "T", "U", "V", "W", "X", "Y", "Z"}

LowerLetters ==
  {"a", "b", "c", "d", "e", "f", "g", "h", "i", "j", "k", "l", "m",
   "n", "o", "p", "q", "r", "s", "t", "u", "v", "w", "x", "y", "z"}

\* str.upper() on one character
UpperChar(c) == IF c \in LowerLetters THEN Chars[Ord(c) - 27] ELSE c

\* str.lower() on one character
LowerChar(c) == IF c \in UpperLetters THEN Chars[Ord(c) + 27] ELSE c

Upper(s) == [i \in 1..Len(s) |-> UpperChar(s[i])]

Lower(s) == [i \in 1..Len(s) |-> LowerChar(s[i])]

\* [A-Za-z0-9]
IsAlnum(c) == c \in Digits \cup UpperLetters \cup LowerLetters

\* [A-Za-z0-9\-_.]
IsTokChar(c) == IsAlnum(c) \/ c \in {"-", "_", "."}

\* [A-Z0-9]
IsUpAlnum(c) == c \in Digits \cup UpperLetters

\* [A-Z0-9\-_.]
IsUpTokChar(c) == IsUpAlnum(c) \/ c \in {"-", "_", "."}

\* [\s_\-:] of MODEL_RE
IsSepChar(c) == c \in {" ", "_", "-", ":"}

\* \w of the re module
IsWordChar(c) == IsAlnum(c) \/ c = "_"

\* s[i:j] on 1-based inclusive positions, empty when j < i
Slice(s, i, j) == IF j < i THEN << >> ELSE SubSeq(s, i, j)

\* s starts with t at position i
StartsAt(s, t, i) ==
  /\ i + Len(t) - 1 <= Len(s)
  /\ \A k \in 1..Len(t) : s[i + k - 1] = t[k]

\* c in s
Contains(s, c) == \E i \in 1..Len(s) : s[i] = c

\* the least position from i on whose character fails P, or Len(s)+1
RECURSIVE SkipSeps(_, _)
SkipSeps(s, i) ==
  IF i <= Len(s) /\ IsSepChar(s[i]) THEN SkipSeps(s, i + 1) ELSE i

\* the last position of the run of token characters that starts at i,
\* at most lim characters long (i - 1 when the run is empty)
RECURSIVE TokRunEnd(_, _, _)
TokRunEnd(s, i, lim) ==
  IF lim > 0 /\ i <= Len(s) /\ IsTokChar(s[i])
  THEN TokRunEnd(s, i + 1, lim - 1)
  ELSE i - 1

KwModel == <<"m", "o", "d", "e", "l">>

KwType == <<"t", "y", "p", "e">>

UNKNOWN_LC == <<"u", "n", "k", "n", "o", "w", "n">>

UNKNOWN_UC == <<"U", "N", "K", "N", "O", "W", "N">>

NoMatch == <<"no match">>

\* MODEL_RE anchored at position i of s: the captured group, or NoMatch
ModelReAt(s, i) ==
  LET low  == Lower(s)
      klen == IF StartsAt(low, KwModel, i) THEN 5
              ELSE IF StartsAt(low, KwType, i) THEN 4 ELSE 0
      h    == SkipSeps(s, i + klen)
      e    == TokRunEnd(s, h + 1, 32)
  IN  IF klen > 0 /\ h <= Len(s) /\ IsAlnum(s[h]) /\ e >= h + 1
      THEN SubSeq(s, h, e)
      ELSE NoMatch

\* MODEL_RE.search(s): the group of the leftmost match, or NoMatch
RECURSIVE ModelReFrom(_, _)
ModelReFrom(s, i) ==
  IF i > Len(s) THEN NoMatch
  ELSE IF ModelReAt(s, i) # NoMatch THEN ModelReAt(s, i)
  ELSE ModelReFrom(s, i + 1)

ModelReSearch(s) == ModelReFrom(s, 1)

\* BARE_MODEL_PREFIX_RE.match(s)
BareMatch(s) ==
  /\ Len(s) >= 2
  /\ Len(s) <= 33
  /\ IsAlnum(s[1])
  /\ \A i \in 2..Len(s) : IsTokChar(s[i])

\* re.match(r"(?i)^img_\d+$", s)
IsImgDigits(s) ==
  /\ Len(s) >= 5
  /\ Lower(SubSeq(s, 1, 4)) = <<"i", "m", "g", "_">>
  /\ \A i \in 5..Len(s) : s[i] \in Digits

\* re.match(r"(?i)^img$", s)
IsImg(s) == Lower(s) = <<"i", "m", "g">>

\* the position of the last "." of a name, 0 when there is none
RECURSIVE LastDot(_, _)
LastDot(s, i) ==
  IF i = 0 THEN 0 ELSE IF s[i] = "." THEN i ELSE LastDot(s, i - 1)

\* Path(name).suffix
Suffix(name) ==
  LET i == LastDot(name, Len(name))
  IN  IF 1 < i /\ i < Len(name) THEN SubSeq(name, i, Len(name)) ELSE << >>

\* Path(name).stem
Stem(name) == SubSeq(name, 1, Len(name) - Len(Suffix(name)))

\* the position of the first c of s (Len(s)+1 when there is none)
RECURSIVE FirstPos(_, _, _)
FirstPos(s, c, i) ==
  IF i > Len(s) \/ s[i] = c THEN i ELSE FirstPos(s, c, i + 1)

\* base.split(sep)[0]
SplitHead(s, c) == Slice(s, 1, FirstPos(s, c, 1) - 1)

\* the separator loop of guess_model_from_filename
RECURSIVE SplitGuess(_, _)
SplitGuess(base, seps) ==
  IF seps = << >> THEN UNKNOWN_LC
  ELSE LET cand == SplitHead(base, Head(seps))
       IN  IF /\ Contains(base, Head(seps))
              /\ 2 <= Len(cand)
              /\ Len(cand) <= 40
              /\ ~IsImg(cand)
           THEN cand
           ELSE SplitGuess(base, Tail(seps))

guess_model_from_filename(name) ==
  LET m    == ModelReSearch(name)
      base == Stem(name)
  IN  IF m # NoMatch THEN m
      ELSE IF BareMatch(base)
           THEN (IF IsImgDigits(base) THEN UNKNOWN_LC ELSE base)
      ELSE IF IsImgDigits(base) THEN UNKNOWN_LC
      ELSE SplitGuess(base, <<"_", "-", " ">>)

\* str.strip() for the whitespace of the alphabet
RECURSIVE StripSpaces(_)
StripSpaces(s) ==
  IF s = << >> THEN s
  ELSE IF Head(s) = " " THEN StripSpaces(Tail(s))
  ELSE IF s[Len(s)] = " " THEN StripSpaces(SubSeq(s, 1, Len(s) - 1))
  ELSE s

\* str.strip("-._")
RECURSIVE StripPunct(_)
StripPunct(s) ==
  IF s = << >> THEN s
  ELSE IF Head(s) \in {"-", ".", "_"} THEN StripPunct(Tail(s))
  ELSE IF s[Len(s)] \in {"-", ".", "_"}
       THEN StripPunct(SubSeq(s, 1, Len(s) - 1))
  ELSE s

\* re.sub(r"[^A-Z0-9._-]+", "-", m) followed by re.sub(r"-+", "-", m)
RECURSIVE DashRuns(_)
DashRuns(s) ==
  IF s = << >> THEN s
  ELSE LET c    == IF IsUpTokChar(Head(s)) THEN Head(s) ELSE "-"
           rest == DashRuns(Tail(s))
       IN  IF c = "-" /\ rest # << >> /\ Head(rest) = "-"
           THEN rest
           ELSE <<c>> \o rest

\* the trimming of "-._" done before the replacements instead of after
SanitizeTrimFirst(model) ==
  LET m == DashRuns(StripPunct(Upper(StripSpaces(model))))
  IN  IF m = << >> THEN UNKNOWN_UC ELSE m

sanitize_model_code(model) ==
  LET m == StripPunct(DashRuns(Upper(StripSpaces(model))))
  IN  IF m = << >> THEN UNKNOWN_UC ELSE m

\* \b between positions p and p+1 of u
Boundary(u, p) ==
  LET before == p >= 1 /\ p <= Len(u) /\ IsWordChar(u[p])
      after  == p + 1 >= 1 /\ p + 1 <= Len(u) /\ IsWordChar(u[p + 1])
  IN  before # after

\* the last position of the run of [A-Z0-9\-_.] that starts at i, at most
\* lim characters long
RECURSIVE UpTokRunEnd(_, _, _)
UpTokRunEnd(u, i, lim) ==
  IF lim > 0 /\ i <= Len(u) /\ IsUpTokChar(u[i])
  THEN UpTokRunEnd(u, i + 1, lim - 1)
  ELSE i - 1

\* [A-Z0-9][A-Z0-9\-_.]{2,32}\b at position h of u: the end of the match the
\* backtracking matcher returns (the longest that ends at a boundary), or 0
TokenEndAt(u, h) ==
  LET maxe == UpTokRunEnd(u, h + 1, 32)
      ends == {e \in (h + 2)..maxe : Boundary(u, e)}
  IN  IF h <= Len(u) /\ IsUpAlnum(u[h]) /\ ends # {}
      THEN CHOOSE e \in ends : \A f \in ends : f <= e
      ELSE 0

\* the position of the first character that is not whitespace, from i on
RECURSIVE SkipSpaces(_, _)
SkipSpaces(u, i) ==
  IF i <= Len(u) /\ u[i] = " " THEN SkipSpaces(u, i + 1) ELSE i

\* re.match(r"\s*([A-Z0-9][A-Z0-9\-_.]{2,32})\b", u): the group, or NoMatch
LeadMatch(u) ==
  LET h == SkipSpaces(u, 1)
      e == TokenEndAt(u, h)
  IN  IF e = 0 THEN NoMatch ELSE SubSeq(u, h, e)

\* re.findall(r"\b[A-Z0-9][A-Z0-9\-_.]{2,32}\b", u) from position i on
RECURSIVE FindTokens(_, _)
FindTokens(u, i) ==
  IF i > Len(u) THEN << >>
  ELSE LET e == IF Boundary(u, i - 1) THEN TokenEndAt(u, i) ELSE 0
       IN  IF e = 0 THEN FindTokens(u, i + 1)
           ELSE <<SubSeq(u, i, e)>> \o FindTokens(u, e + 1)

blacklist ==
  { <<"W", "W", "W">>, <<"H", "T", "T", "P">>, <<"H", "T", "T", "P", "S">>,
    <<"M", "A", "D", "E">>, <<"C", "H", "I", "N", "A">>,
    <<"A", "P", "P", "L", "E">>, <<"I", "P", "H", "O", "N", "E">>,
    <<"I", "O", "S">>, <<"P", "C", "S">>, <<"S">>, <<"M">>, <<"L">>,
    <<"X", "L">>, <<"X", "X", "L">> }

\* re.match(r"^IMG_\d+$", c)
IsUpImgDigits(c) ==
  /\ Len(c) >= 5
  /\ SubSeq(c, 1, 4) = <<"I", "M", "G", "_">>
  /\ \A i \in 5..Len(c) : c[i] \in Digits

extract_model_from_text(text) ==
  LET m     == ModelReSearch(text)
      u     == Upper(text)
      lead  == LeadMatch(u)
      cands == SelectSeq(FindTokens(u, 1),
                         LAMBDA c : c \notin blacklist /\ ~IsUpImgDigits(c))
  IN  IF text = << >> THEN UNKNOWN_LC
      ELSE IF m # NoMatch THEN m
      ELSE IF lead # NoMatch /\ ~IsUpImgDigits(lead) THEN lead
      ELSE IF cands # << >> THEN Head(cands)
      ELSE UNKNOWN_LC

(***************************************************************************)
(* The bounds of the model.                                                *)
(***************************************************************************)
\* the most files an inbox holds
MaxFiles == 3

\* the number of full runs of main() that are followed
MaxRuns == 2

\* a source file is dropped with modification time 1 (before the first
\* run) or MaxMtime (ahead of the clock of the first runs)
MaxMtime == 3

\* the most files under DOWNLOADS when the first import starts
MaxDownloads == 3

\* the number of runs of the import script that are followed
MaxImports == 2

\* the number of publish passes that are followed step by step
MaxPasses == 3

\* the longest string, over RawAlphabet, a string function is called with
MaxLen == 3

\* OCR_CAP ranges over -NegCap .. MaxCap, and the default
NegCap == 1

MaxCap == 1

\* os.environ.get("OCR_CAP", "4")
DefaultCap == 4

(***************************************************************************)
(* The names, directories and recognised texts the model draws from.       *)
(***************************************************************************)
IMG_0001_HEIC == <<"I", "M", "G", "_", "0", "0", "0", "1", ".", "H", "E", "I", "C">>

IMG_0002_jpg == <<"I", "M", "G", "_", "0", "0", "0", "2", ".", "j", "p", "g">>

D5301_1_jpg == <<"D", "5", "3", "0", "1", "-", "1", ".", "j", "p", "g">>

ab_1_jpg == <<"a", "b", "_", "1", ".", "j", "p", "g">>

D5301_2 == <<"D", "5", "3", "0", "1", "-", "2">>

RootDir == << >>

DirA == <<"a">>

DirB == <<"b">>

\* the paths (relative to INBOX) a file may be dropped at
Catalogue ==
  { [dir |-> RootDir, name |-> IMG_0001_HEIC],
    [dir |-> DirA,    name |-> IMG_0001_HEIC],
    [dir |-> DirB,    name |-> IMG_0001_HEIC],
    [dir |-> RootDir, name |-> IMG_0002_jpg],
    [dir |-> RootDir, name |-> D5301_1_jpg],
    [dir |-> RootDir, name |-> ab_1_jpg] }

\* what the external recognition process may print for an image
Texts == { D5301_2 }

Caps == ((0 - NegCap)..MaxCap) \cup {DefaultCap}

(***************************************************************************)
(* Paths and their order.                                                  *)
(***************************************************************************)
\* str.__lt__ : lexicographic by code point
RECURSIVE StrLess(_, _)
StrLess(a, b) ==
  IF b = << >> THEN FALSE
  ELSE IF a = << >> THEN TRUE
  ELSE IF Head(a) # Head(b) THEN Ord(Head(a)) < Ord(Head(b))
  ELSE StrLess(Tail(a), Tail(b))

\* Path.parts below INBOX
PathParts(p) == IF p.dir = RootDir THEN <<p.name>> ELSE <<p.dir, p.name>>

\* PurePath.__lt__ : lexicographic on the parts
RECURSIVE PartsLess(_, _)
PartsLess(a, b) ==
  IF b = << >> THEN FALSE
  ELSE IF a = << >> THEN TRUE
  ELSE IF Head(a) # Head(b) THEN StrLess(Head(a), Head(b))
  ELSE PartsLess(Tail(a), Tail(b))

PathLess(p, q) == PartsLess(PathParts(p), PathParts(q))

\* sorted(...) of a set of paths
RECURSIVE SortedPaths(_)
SortedPaths(S) ==
  IF S = {} THEN << >>
  ELSE LET m == CHOOSE x \in S : \A y \in S \ {x} : PathLess(x, y)
       IN  <<m>> \o SortedPaths(S \ {m})

PathOf(f) == [dir |-> f.dir, name |-> f.name]

IMG_EXTS ==
  { <<".", "j", "p", "g">>, <<".", "j", "p", "e", "g">>, <<".", "p", "n", "g">>,
    <<".", "w", "e", "b", "p">>, <<".", "h", "e", "i", "c">> }

DotHeic == <<".", "h", "e", "i", "c">>

DotHEIC == <<".", "H", "E", "I", "C">>

(***************************************************************************)
(* The state.                                                              *)
(*   inbox        the source files: [dir, name, mtime, id], id being the   *)
(*                path the file was dropped at (it survives a rename)      *)
(*   assets       the published renditions:                                *)
(*                [model, thumb, stem, mtime, src], src the id of the      *)
(*                source the rendition was made from                       *)
(*   cacheFile    output/ocr-cache.json: entries [key, mtime, text, shape];*)
(*                the key is the stem of the rendition under assets/unknown*)
(*   cacheKind    what output/ocr-cache.json is: "missing", "corrupt"      *)
(*                (unreadable or not JSON), "not_object" (JSON, but a list,*)
(*                a string, a number or null) or "object" (cacheFile)      *)
(*   now          the clock                                                *)
(*   run          the number of completed runs of main()                   *)
(*   pc, idx      the position of main() and of its current loop           *)
(*   OCR_CAP      the value of the environment variable OCR_CAP            *)
(*   sipsWorks    whether /usr/bin/sips rewrites the files it is given     *)
(*   items        main()'s items: [model, dir, name] in scan order         *)
(*   ocr_cache    main()'s in-memory cache                                 *)
(*   text         main()'s text, what ocr_text_for_image returned last     *)
(*   reclassified main()'s reclassified, in order of insertion             *)
(*   by_model     main()'s by_model, the mapping handed to the pages       *)
(* and, recorded for the properties,                                       *)
(*   extCalls     how often the external recogniser ran, per source id     *)
(*   failed       the source ids for which the external recogniser failed  *)
(*   passed       the paths passed to ocr_text_for_image in this run       *)
(*   regen        the renditions regenerated in this run: [id, thumb]      *)
(*   renamed      the renames that succeeded: [id, code]                   *)
(*   atStart      the inbox, assets, extCalls and failed when this run     *)
(*                started                                                  *)
(*   dropped      the ids of the files dropped into the inbox              *)
(***************************************************************************)
VARIABLES inbox, assets, cacheFile, cacheKind, now, run, pc, idx, OCR_CAP,
          sipsWorks, items, ocr_cache, text, reclassified, by_model, extCalls, failed,
          passed, regen, renamed, atStart, dropped

(***************************************************************************)
(* A call of one of the three string functions on its own:                 *)
(*   called       "none", or the function called last: "guess"             *)
(*                (guess_model_from_filename), "extract"                   *)
(*                (extract_model_from_text), "sanitize"                    *)
(*                (sanitize_model_code)                                    *)
(*   arg          the string the function was given                        *)
(*   ret          the string it returned                                   *)
(***************************************************************************)
VARIABLES called, arg, ret

\* the state of the string functions called on their own
calls == << called, arg, ret >>

(***************************************************************************)
(* The publish pass of one source file, lines 198-212, step by step, with  *)
(* a process that can be killed at any point:                              *)
(*   files        per kind of rendition ("large", "thumb") what is at the  *)
(*                temporary path <base>.__tmp__.jpg (tmp) and at the       *)
(*                rendition's path (dst): [content, mtime], the content    *)
(*                "none", "partial" (a file not written to its end),       *)
(*                "copy" (the bytes of the source) or "jpeg" (resized)     *)
(*   step         the next step of the pass: "check", "unlink", "copy",    *)
(*                "sips", "replace"; or "done", "crashed"                  *)
(*   kind         the rendition the pass is at                             *)
(*   srcMtime     the modification time of the source                      *)
(*   clock        the time of day                                          *)
(*   passes       the number of passes started                             *)
(*   leftover     whether this pass started with a temporary file left by  *)
(*                a killed one (recorded for the properties)               *)
(***************************************************************************)
VARIABLES files, step, kind, srcMtime, clock, passes, leftover

pubVars == << files, step, kind, srcMtime, clock, passes, leftover >>

(***************************************************************************)
(* scripts/import_from_downloads.py:                                       *)
(*   downloads    the files under DOWNLOADS: [dir, name], dir the sequence *)
(*                of the directories from DOWNLOADS down to the file       *)
(*   inbox_dir    the names of the files in INBOX                          *)
(*   catmapFile   output/category-map.json: the codes that have an entry   *)
(*   catmap       main()'s catmap["models"]: the codes that have an entry  *)
(*   stamp        the number of runs started; it names the archive         *)
(*   candidates   main()'s sorted(candidates)                              *)
(*   ci           the position of the loop of lines 120-156                *)
(*   ipc          "idle", or "loop" while main() runs                      *)
(*   copies       the copies made by this run, in order: [src, code, ext,  *)
(*                dest, before], before being the names in INBOX when the  *)
(*                copy was made (recorded for the properties)              *)
(***************************************************************************)
VARIABLES downloads, inbox_dir, catmapFile, catmap, stamp, candidates, ci,
          ipc, copies

impVars == << downloads, inbox_dir, catmapFile, catmap, stamp, candidates, ci,
              ipc, copies >>

\* the state of main()
mainVars == << inbox, assets, cacheFile, cacheKind, now, run, pc, idx,
               OCR_CAP, sipsWorks, items, ocr_cache, text, reclassified, by_model, extCalls, failed,
               passed, regen, renamed, atStart, dropped >>

vars == << mainVars, calls, pubVars, impVars >>

\* what the environment fixes and main() only reads, and what main() has
\* no access to
env == << OCR_CAP, sipsWorks, dropped, calls, pubVars, impVars >>

\* no string function has been called on its own
NoCall == called = "none" /\ arg = << >> /\ ret = << >>

NoFile == [content |-> "none", mtime |-> 0]

\* no publish pass is followed step by step
NoPass ==
  /\ files = [k \in {"large", "thumb"} |-> [tmp |-> NoFile, dst |-> NoFile]]
  /\ step = "done"
  /\ kind = "large"
  /\ srcMtime = 1
  /\ clock = 1
  /\ passes = 0
  /\ leftover = FALSE

\* the import script has not run and has nothing to run on
NoImport ==
  /\ downloads = {}
  /\ inbox_dir = {}
  /\ catmapFile = {}
  /\ catmap = {}
  /\ stamp = 0
  /\ candidates = << >>
  /\ ci = 1
  /\ ipc = "idle"
  /\ copies = << >>

Exists(inb, p) == \E f \in inb : PathOf(f) = p

FileAt(inb, p) == CHOOSE f \in inb : PathOf(f) = p

EntryPath(e) == [dir |-> e.dir, name |-> e.name]

\* a dict of lists filled in the order of seq, read back with .items()
RECURSIVE Grouped(_)
Grouped(seq) ==
  IF seq = << >> THEN << >>
  ELSE LET k == Head(seq).model
       IN  SelectSeq(seq, LAMBDA e : e.model = k)
             \o Grouped(SelectSeq(seq, LAMBDA e : e.model # k))

\* lines 163-167: the scan of the inbox
Scan(inb) ==
  LET paths  == {PathOf(f) : f \in {g \in inb : Lower(Suffix(g.name)) \in IMG_EXTS}}
      sorted == SortedPaths(paths)
  IN  [i \in 1..Len(sorted) |->
         [model |-> guess_model_from_filename(sorted[i].name),
          dir   |-> sorted[i].dir,
          name  |-> sorted[i].name]]

\* seq[:k] of Python
PySliceTo(seq, k) ==
  LET n == Len(seq)
      e == IF k >= 0 THEN (IF k < n THEN k ELSE n)
           ELSE (IF n + k > 0 THEN n + k ELSE 0)
  IN  Slice(seq, 1, e)

\* seq[k:] of Python
PySliceFrom(seq, k) ==
  LET n == Len(seq)
      b == IF k >= 0 THEN (IF k < n THEN k ELSE n)
           ELSE (IF n + k > 0 THEN n + k ELSE 0)
  IN  Slice(seq, b + 1, n)

\* tmp_by_model["unknown"]
unknown_files == SelectSeq(items, LAMBDA e : e.model = UNKNOWN_LC)

\* a cap that lets one file too many through
CappedOffByOne == PySliceTo(unknown_files, OCR_CAP + 1)

\* unknown_files[:OCR_CAP]
CappedFiles == PySliceTo(unknown_files, OCR_CAP)

\* unknown_files[OCR_CAP:]
DeferredFiles == PySliceFrom(unknown_files, OCR_CAP)

\* the rendition stored at assets/<model>[/thumb]/<stem>.jpg, as a set
Rendition(A, model, thumb, stem) ==
  {a \in A : a.model = model /\ a.thumb = thumb /\ a.stem = stem}

\* lines 195-196
needs_update(A, f, model, thumb, stem) ==
  \/ Rendition(A, model, thumb, stem) = {}
  \/ \E a \in Rendition(A, model, thumb, stem) : f.mtime > a.mtime

\* a publish pass that writes under the sanitized name of the bucket
RegenerateSanitized(A, f, model, thumb, stem) ==
  (A \ Rendition(A, sanitize_model_code(model), thumb, stem))
    \cup {[model |-> sanitize_model_code(model), thumb |-> thumb,
           stem |-> stem, mtime |-> IF sipsWorks THEN now ELSE f.mtime,
           src |-> f.id]}

\* lines 199-204 / 207-212: copy2 keeps the source's mtime, a sips that
\* works rewrites the file now, replace() puts it at the rendition's path
Regenerate(A, f, model, thumb, stem) ==
  (A \ Rendition(A, model, thumb, stem))
    \cup {[model |-> model, thumb |-> thumb, stem |-> stem,
           mtime |-> IF sipsWorks THEN now ELSE f.mtime, src |-> f.id]}

\* lines 239-248 for one file: shutil.move of the two renditions
MoveKind(A, e, thumb) ==
  LET base == Stem(e.name)
      r    == Rendition(A, UNKNOWN_LC, thumb, base)
  IN  IF r = {} THEN A
      ELSE ((A \ r) \ Rendition(A, e.model, thumb, base))
             \cup {[a EXCEPT !.model = e.model] : a \in r}

\* a migration that forgets the thumbnail
MoveLargeOnly(A, e) == MoveKind(A, e, FALSE)

MoveOne(A, e) == MoveKind(MoveKind(A, e, FALSE), e, TRUE)

RECURSIVE MoveAll(_, _)
MoveAll(A, list) ==
  IF list = << >> THEN A ELSE MoveAll(MoveOne(A, Head(list)), Tail(list))

\* the entries of reclassified that lines 233-235 and 252-254 let through
Resolved(recl) ==
  SelectSeq(Grouped(recl), LAMBDA e : e.model \notin {UNKNOWN_UC, UNKNOWN_LC})

\* lines 261-264: the target of a rename
RenameTarget(inb, e) ==
  LET t1 == [dir |-> RootDir, name |-> e.model \o DotHEIC]
  IN  IF Exists(inb, t1)
      THEN [dir |-> RootDir, name |-> (e.model \o <<"_">>) \o e.name]
      ELSE t1

\* lines 255-268 for one file; raises is whether src.rename raises for a
\* reason of the environment
RenameOne(inb, e, raises) ==
  IF Lower(Suffix(e.name)) # DotHeic THEN inb
  ELSE IF Upper(Stem(e.name)) = e.model THEN inb
  ELSE IF raises \/ ~Exists(inb, EntryPath(e)) THEN inb
  ELSE LET f == FileAt(inb, EntryPath(e))
           t == RenameTarget(inb, e)
       IN  {g \in inb : PathOf(g) \notin {PathOf(f), t}}
             \cup {[f EXCEPT !.dir = t.dir, !.name = t.name]}

RECURSIVE RenameAll(_, _, _, _)
RenameAll(inb, list, i, fails) ==
  IF i > Len(list) THEN inb
  ELSE RenameAll(RenameOne(inb, list[i], i \in fails), list, i + 1, fails)

\* whether lines 255-268 rename the file of entry e
Renames(inb, e, raises) ==
  /\ Lower(Suffix(e.name)) = DotHeic
  /\ Upper(Stem(e.name)) # e.model
  /\ ~raises
  /\ Exists(inb, EntryPath(e))

\* the renames of the loop that succeed, as [id, code]
RECURSIVE RenameLog(_, _, _, _)
RenameLog(inb, list, i, fails) ==
  IF i > Len(list) THEN {}
  ELSE (IF Renames(inb, list[i], i \in fails)
        THEN {[id |-> FileAt(inb, EntryPath(list[i])).id, code |-> list[i].model]}
        ELSE {})
       \cup RenameLog(RenameOne(inb, list[i], i \in fails), list, i + 1, fails)

\* lines 270-278
Rebuilt(its, recl) ==
  LET known == SelectSeq(Grouped(its), LAMBDA e : e.model # UNKNOWN_LC)
      all   == known \o Grouped(recl)
  IN  Grouped([i \in 1..Len(all) |->
                 [all[i] EXCEPT !.model = sanitize_model_code(all[i].model)]])

\* lines 82-89: the entries of the file when it holds a JSON object; {} when
\* it is missing or reading or parsing it raises; when it holds other JSON the
\* value json.loads returns is no dict and has no entries
load_ocr_cache == IF cacheKind = "object" THEN cacheFile ELSE {}

\* whether what load_ocr_cache returned is a dict; main() is the only writer
\* of the file, which is until save_ocr_cache as it was when it was loaded
IsDict == cacheKind # "not_object"

Failure == [ok |-> FALSE, text |-> << >>]

\* what subprocess.check_output ends with: a text, or an exception
Outcomes == {[ok |-> TRUE, text |-> t] : t \in Texts} \cup {Failure}

(***************************************************************************)
(* The initial states: a non-empty inbox of at most MaxFiles files, no     *)
(* published rendition, and a cache file that holds, for one key, an entry *)
(* of another shape (ocr_text_for_image checks the shape of an entry); the *)
(* other keys are absent.  Or the cache file is missing, cannot be read or *)
(* parsed, or holds JSON that is not an object.                            *)
(***************************************************************************)
Mtimes == {1, MaxMtime}

Inboxes ==
  { {[dir |-> p.dir, name |-> p.name, mtime |-> mt[p], id |-> p] : p \in S} :
      <<S, mt>> \in
        UNION { {<<S, mt>> : mt \in [S -> Mtimes]} :
                  S \in {T \in SUBSET Catalogue :
                           Cardinality(T) >= 1 /\ Cardinality(T) <= MaxFiles} } }

StoreKinds == {"missing", "corrupt", "not_object", "object"}

BadEntry ==
  [key |-> Stem(IMG_0002_jpg), mtime |-> 2, text |-> D5301_2, shape |-> "bad"]

Init ==
  /\ inbox \in Inboxes
  /\ assets = {}
  /\ cacheKind \in StoreKinds
  /\ cacheFile = IF cacheKind = "object" THEN {BadEntry} ELSE {}
  /\ now = 1
  /\ run = 0
  /\ pc = "idle"
  /\ idx = 1
  /\ OCR_CAP \in Caps
  /\ sipsWorks \in BOOLEAN
  /\ items = << >>
  /\ ocr_cache = {}
  /\ text = << >>
  /\ reclassified = << >>
  /\ by_model = << >>
  /\ extCalls = [p \in Catalogue |-> 0]
  /\ failed = {}
  /\ passed = << >>
  /\ regen = {}
  /\ renamed = {}
  /\ atStart = [inbox |-> inbox, assets |-> assets, extCalls |-> extCalls,
                failed |-> failed]
  /\ dropped = {f.id : f \in inbox}
  /\ NoCall
  /\ NoPass
  /\ NoImport

(***************************************************************************)
(* main(), lines 157-181: the cache is loaded, the inbox is scanned and    *)
(* bucketed.  The clock has moved on since the last run.                   *)
(***************************************************************************)
StartRun ==
  /\ pc = "idle"
  /\ run < MaxRuns
  /\ now' = now + 1
  /\ ocr_cache' = load_ocr_cache
  /\ items' = Scan(inbox)
  /\ by_model' = Grouped(items')
  /\ idx' = 1
  /\ pc' = IF items' = << >> THEN "published" ELSE "publish"
  /\ reclassified' = << >>
  /\ passed' = << >>
  /\ regen' = {}
  /\ atStart' = [inbox |-> inbox, assets |-> assets, extCalls |-> extCalls,
                 failed |-> failed]
  /\ text' = << >>
  /\ UNCHANGED << inbox, assets, cacheFile, cacheKind, run, extCalls, failed, renamed,
                  env >>

(***************************************************************************)
(* Lines 183-212 for one source file: the large rendition, then the        *)
(* thumbnail, each regenerated when needs_update says so.                  *)
(***************************************************************************)
PublishFile ==
  /\ pc = "publish"
  /\ idx <= Len(Grouped(items))
  /\ LET e     == Grouped(items)[idx]
         f     == FileAt(inbox, EntryPath(e))
         base  == Stem(e.name)
         needL == needs_update(assets, f, e.model, FALSE, base)
         needT == needs_update(assets, f, e.model, TRUE, base)
         A1    == IF needL THEN Regenerate(assets, f, e.model, FALSE, base)
                  ELSE assets
         A2    == IF needT THEN Regenerate(A1, f, e.model, TRUE, base)
                  ELSE A1
     IN  /\ assets' = A2
         /\ regen' = regen
              \cup (IF needL THEN {[id |-> f.id, thumb |-> FALSE]} ELSE {})
              \cup (IF needT THEN {[id |-> f.id, thumb |-> TRUE]} ELSE {})
  /\ idx' = idx + 1
  /\ pc' = IF idx = Len(Grouped(items)) THEN "published" ELSE "publish"
  /\ UNCHANGED << inbox, cacheFile, cacheKind, now, run, items, ocr_cache, text,
                  reclassified, by_model, extCalls, failed, passed, renamed,
                  atStart, env >>

(***************************************************************************)
(* Lines 215-219: the second pass is entered when a file landed in         *)
(* "unknown".                                                              *)
(***************************************************************************)
BeginReconcile ==
  /\ pc = "published"
  /\ pc' = IF unknown_files # << >> THEN "ocr" ELSE "save"
  /\ idx' = 1
  /\ reclassified' = << >>
  /\ UNCHANGED << inbox, assets, cacheFile, cacheKind, now, run, items, ocr_cache,
                  text, by_model, extCalls, failed, passed, regen, renamed,
                  atStart, env >>

(***************************************************************************)
(* Lines 220-226 for one capped file, with ocr_text_for_image (98-120).    *)
(* A missing rendition makes path.stat() raise (line 105), a cache that is  *)
(* no dict makes cache.get raise (line 106); either ends main().           *)
(***************************************************************************)
\* a lookup that does not compare the modification time
CacheHitAnyMtime(C, key, mtime) ==
  \E en \in C : en.key = key /\ en.shape = "ok"

CacheHit(C, key, mtime) ==
  \E en \in C : en.key = key /\ en.shape = "ok" /\ en.mtime = mtime

CacheText(C, key) == (CHOOSE en \in C : en.key = key).text

CachePut(C, key, mtime, txt) ==
  {en \in C : en.key # key}
    \cup {[key |-> key, mtime |-> mtime, text |-> txt, shape |-> "ok"]}

OcrFile ==
  /\ pc = "ocr"
  /\ idx <= Len(CappedFiles)
  /\ LET e     == CappedFiles[idx]
         base  == Stem(e.name)
         large == Rendition(assets, UNKNOWN_LC, FALSE, base)
     IN  IF large = {} \/ ~IsDict
         THEN /\ pc' = "crashed"
              /\ UNCHANGED << idx, ocr_cache, text, reclassified, extCalls,
                              failed, passed >>
         ELSE LET mtime == (CHOOSE a \in large : TRUE).mtime
                  hit   == CacheHit(ocr_cache, base, mtime)
                  id    == FileAt(inbox, EntryPath(e)).id
              IN  \E out \in (IF hit THEN {Failure} ELSE Outcomes) :
                    LET t == IF hit THEN CacheText(ocr_cache, base)
                             ELSE out.text
                    IN  /\ text' = t
                        /\ ocr_cache' = IF hit THEN ocr_cache
                                        ELSE CachePut(ocr_cache, base, mtime, t)
                        /\ extCalls' = IF hit THEN extCalls
                                       ELSE [extCalls EXCEPT ![id] = @ + 1]
                        /\ failed' = IF hit \/ out.ok THEN failed
                                     ELSE failed \cup {id}
                        /\ reclassified' = Append(reclassified,
                             [model |-> sanitize_model_code(
                                          extract_model_from_text(t)),
                              dir |-> e.dir, name |-> e.name])
                        /\ passed' = Append(passed, EntryPath(e))
                        /\ idx' = idx + 1
                        /\ pc' = pc
  /\ UNCHANGED << inbox, assets, cacheFile, cacheKind, now, run, items, by_model,
                  regen, renamed, atStart, env >>

(***************************************************************************)
(* Lines 228-230: what is beyond the cap goes to "UNKNOWN".                *)
(***************************************************************************)
Defer ==
  /\ pc = "ocr"
  /\ idx > Len(CappedFiles)
  /\ reclassified' = reclassified
       \o [i \in 1..Len(DeferredFiles) |->
             [model |-> UNKNOWN_UC, dir |-> DeferredFiles[i].dir,
              name |-> DeferredFiles[i].name]]
  /\ pc' = "migrate"
  /\ UNCHANGED << inbox, assets, cacheFile, cacheKind, now, run, idx, items,
                  ocr_cache, text, by_model, extCalls, failed, passed, regen,
                  renamed, atStart, env >>

(***************************************************************************)
(* Lines 232-248: the renditions of the resolved files move from           *)
(* assets/unknown to assets/<new_model>.                                   *)
(***************************************************************************)
Migrate ==
  /\ pc = "migrate"
  /\ assets' = MoveAll(assets, Resolved(reclassified))
  /\ pc' = "rename"
  /\ UNCHANGED << inbox, cacheFile, cacheKind, now, run, idx, items, ocr_cache, text,
                  reclassified, by_model, extCalls, failed, passed, regen,
                  renamed, atStart, env >>

(***************************************************************************)
(* Lines 250-268: the .heic sources of the resolved files are renamed; a   *)
(* rename that raises is swallowed.                                        *)
(***************************************************************************)
Rename ==
  /\ pc = "rename"
  /\ \E fails \in SUBSET (1..Len(Resolved(reclassified))) :
       /\ inbox' = RenameAll(inbox, Resolved(reclassified), 1, fails)
       /\ renamed' = renamed
            \cup RenameLog(inbox, Resolved(reclassified), 1, fails)
  /\ pc' = "rebuild"
  /\ UNCHANGED << assets, cacheFile, cacheKind, now, run, idx, items, ocr_cache, text,
                  reclassified, by_model, extCalls, failed, passed, regen,
                  atStart, env >>

(***************************************************************************)
(* Lines 270-278: by_model is rebuilt from the buckets and reclassified.   *)
(***************************************************************************)
Rebuild ==
  /\ pc = "rebuild"
  /\ by_model' = Rebuilt(items, reclassified)
  /\ pc' = "save"
  /\ UNCHANGED << inbox, assets, cacheFile, cacheKind, now, run, idx, items,
                  ocr_cache, text, reclassified, extCalls, failed, passed,
                  regen, renamed, atStart, env >>

(***************************************************************************)
(* Lines 280-332: the cache is saved and the pages are written from        *)
(* by_model; main() returns.                                               *)
(***************************************************************************)
SaveAndRender ==
  /\ pc = "save"
  /\ cacheFile' = IF IsDict THEN ocr_cache ELSE cacheFile
  /\ cacheKind' = IF IsDict THEN "object" ELSE cacheKind
  /\ run' = run + 1
  /\ pc' = "idle"
  /\ UNCHANGED << inbox, assets, now, idx, items, ocr_cache, text,
                  reclassified, by_model, extCalls, failed, passed, regen,
                  renamed, atStart, env >>

Next ==
  \/ StartRun
  \/ PublishFile
  \/ BeginReconcile
  \/ OcrFile
  \/ Defer
  \/ Migrate
  \/ Rename
  \/ Rebuild
  \/ SaveAndRender

Spec == Init /\ [][Next]_vars

(***************************************************************************)
(* The properties.                                                         *)
(***************************************************************************)
RunEnded == pc = "idle" /\ run >= 1

Names(inb) == {PathOf(f) : f \in inb}

HasPair(A, model, stem) ==
  /\ Rendition(A, model, FALSE, stem) # {}
  /\ Rendition(A, model, TRUE, stem) # {}

PathImg1 == [dir |-> RootDir, name |-> IMG_0001_HEIC]

PathD1 == [dir |-> RootDir, name |-> D5301_1_jpg]

\* what the first run of the end-to-end scenario leaves: D5301-1.jpg
\* published under D5301-1, the renditions of IMG_0001 under D5301-2 and no
\* longer under unknown, the source renamed to D5301-2.HEIC
FirstRunOutcome(inb, A) ==
  /\ Names(inb) = {PathD1, [dir |-> RootDir, name |-> D5301_2 \o DotHEIC]}
  /\ HasPair(A, Stem(D5301_1_jpg), Stem(D5301_1_jpg))
  /\ HasPair(A, D5301_2, Stem(IMG_0001_HEIC))
  /\ Rendition(A, UNKNOWN_LC, FALSE, Stem(IMG_0001_HEIC)) = {}
  /\ Rendition(A, UNKNOWN_LC, TRUE, Stem(IMG_0001_HEIC)) = {}

\* C1: with IMG_0001.HEIC and D5301-1.jpg in the inbox and "D5301-2"
\* recognised, the first run publishes, migrates and renames, and the second
\* run changes nothing: no rendition is created, regenerated, moved or
\* deleted, no source is renamed, the recogniser is not called.
C1_EndToEndIdempotent ==
  /\ ( /\ dropped = {PathImg1, PathD1}
       /\ RunEnded /\ run = 1
       /\ OCR_CAP >= 1
       /\ extCalls[PathImg1] = 1 /\ PathImg1 \notin failed
       /\ \E r \in renamed : r.id = PathImg1 )
     => FirstRunOutcome(inbox, assets)
  /\ ( /\ dropped = {PathImg1, PathD1}
       /\ RunEnded /\ run = 2
       /\ FirstRunOutcome(atStart.inbox, atStart.assets) )
     => /\ regen = {}
        /\ assets = atStart.assets
        /\ inbox = atStart.inbox
        /\ extCalls = atStart.extCalls

\* C1: the first run of the scenario has ended as the claim describes
C1_FirstRunDone ==
  /\ dropped = {PathImg1, PathD1}
  /\ RunEnded /\ run = 1
  /\ FirstRunOutcome(inbox, assets)

\* C2: over all the runs the external recogniser is invoked at most once per
\* source file (nobody but the pipeline touches the inbox).
C2_RecognisedAtMostOnce == \A p \in Catalogue : extCalls[p] <= 1

\* C6: at the end of every run every file F listed under identifier K in
\* by_model has its large rendition at assets/K/<stem>.jpg and its thumbnail
\* at assets/K/thumb/<stem>.jpg.
C6_MappingHasRenditions ==
  RunEnded =>
    \A i \in 1..Len(by_model) :
      HasPair(assets, by_model[i].model, Stem(by_model[i].name))

\* C7: every source file dropped into the inbox is still there, possibly
\* under another name; a rename never replaces another source file.
C7_NoSourceLost == {f.id : f \in inbox} = dropped

\* C8: a source file the reconciler renamed after resolving it to code C is
\* attributed to C by the scanner of a later run, from its filename alone.
C8_RenameDurable ==
  \A r \in renamed : \A f \in inbox : \A i \in 1..Len(items) :
    (f.id = r.id /\ EntryPath(items[i]) = PathOf(f) /\ PathOf(f) # f.id)
      => items[i].model = r.code

\* the run after the first has started
LaterRun == run >= 2 \/ (run >= 1 /\ pc # "idle")

\* C3: a rendition is regenerated iff it is missing or older than its source;
\* so a second publish pass over unchanged sources, whatever their
\* modification times, does no resize work.  Stated for the sources of the
\* filename-derived buckets, whose renditions no reconciliation moves.
C3_SecondPassNoWork ==
  LaterRun =>
    \A f \in inbox :
      (f.id = PathOf(f) /\ guess_model_from_filename(f.name) # UNKNOWN_LC)
        => /\ [id |-> f.id, thumb |-> FALSE] \notin regen
           /\ [id |-> f.id, thumb |-> TRUE] \notin regen

AfterDefer == pc \in {"migrate", "rename", "rebuild"}

\* unknown_files[i] was attributed to UNKNOWN without a recognition call
Deferred(i) ==
  LET e == unknown_files[i]
      f == FileAt(atStart.inbox, EntryPath(e))
  IN  /\ \E j \in 1..Len(reclassified) :
           reclassified[j] = [model |-> UNKNOWN_UC, dir |-> e.dir, name |-> e.name]
      /\ \A j \in 1..Len(passed) : passed[j] # EntryPath(e)
      /\ extCalls[f.id] = atStart.extCalls[f.id]

\* exactly the first OCR_CAP files were passed to recognition, the others
\* were deferred
CapRule ==
  /\ Len(passed) = OCR_CAP
  /\ \A i \in 1..Len(passed) : passed[i] = EntryPath(unknown_files[i])
  /\ \A i \in (OCR_CAP + 1)..Len(unknown_files) : Deferred(i)

\* C4 as stated: for every cap k < N the first k files of the unresolved
\* bucket are passed to recognition and the other N-k are deferred.
C4_CapAnyK ==
  (AfterDefer /\ OCR_CAP < Len(unknown_files)) => CapRule

\* C4 amended: the same for every cap k with 0 <= k < N.
C4_Cap ==
  (AfterDefer /\ 0 <= OCR_CAP /\ OCR_CAP < Len(unknown_files)) => CapRule

\* C4: a bucket of at least two files was cut by a cap of one
C4_CapReached ==
  /\ pc = "migrate"
  /\ OCR_CAP = 1
  /\ Len(unknown_files) >= 2
  /\ Len(passed) = 1

IsResolved(e) == e.model \notin {UNKNOWN_UC, UNKNOWN_LC}

\* C5: at the end of the migration step no rendition of a file resolved to
\* code C is left under assets/unknown, and both are under assets/C.
C5_MigrationConsistent ==
  pc = "rename" =>
    \A i \in 1..Len(reclassified) :
      IsResolved(reclassified[i]) =>
        /\ Rendition(assets, UNKNOWN_LC, FALSE, Stem(reclassified[i].name)) = {}
        /\ Rendition(assets, UNKNOWN_LC, TRUE, Stem(reclassified[i].name)) = {}
        /\ HasPair(assets, reclassified[i].model, Stem(reclassified[i].name))

\* C5: a migration has moved the renditions of a resolved file
C5_Migrated ==
  /\ pc = "rename"
  /\ \E i \in 1..Len(reclassified) : IsResolved(reclassified[i])

\* C9: a file whose recognition failed in an earlier run is not passed to
\* the external recogniser again in this run.
C9_FailureNotRetried ==
  \A id \in atStart.failed : extCalls[id] = atStart.extCalls[id]

\* C10: a lookup hits iff the stored entry has the right shape and the
\* modification time of the rendition; a hit returns the stored text, calls
\* nothing and leaves the cache alone; a miss (other time, absent key, wrong
\* shape) calls the external process once and supersedes the entry.
C10_CacheHitRule ==
  [][ (pc = "ocr" /\ idx' = idx + 1) =>
        LET base   == Stem(CappedFiles[idx].name)
            r      == CHOOSE a \in Rendition(assets, UNKNOWN_LC, FALSE, base) : TRUE
            stored == {en \in ocr_cache : en.key = base}
            valid  == {en \in stored : en.shape = "ok" /\ en.mtime = r.mtime}
        IN  IF valid # {}
            THEN /\ extCalls' = extCalls
                 /\ ocr_cache' = ocr_cache
                 /\ \A en \in valid : text' = en.text
            ELSE /\ \E p \in Catalogue :
                      extCalls' = [extCalls EXCEPT ![p] = @ + 1]
                 /\ {en \in ocr_cache' : en.key = base}
                      = {[key |-> base, mtime |-> r.mtime, text |-> text',
                          shape |-> "ok"]}
                 /\ {en \in ocr_cache' : en.key # base}
                      = {en \in ocr_cache : en.key # base} ]_vars

\* C10: in a second run a lookup has hit an entry stored by the first
C10_HitReached ==
  /\ pc = "ocr"
  /\ run >= 1
  /\ Len(passed) >= 1
  /\ extCalls = atStart.extCalls

\* C14: whatever the persisted cache store is (missing, unreadable, not
\* JSON, or JSON that is not an object), load gives a mapping recognition can
\* use, an empty one when the store is missing or corrupt, and the run goes
\* on to recognition and to saving the cache without an error.
C14_LoadNeverFails ==
  /\ pc # "crashed"
  /\ (pc \in {"publish", "published"} /\ cacheKind \in {"missing", "corrupt"})
       => ocr_cache = {}

\* C16: the publish pass of all buckets is over before any recognition or
\* migration step starts, and when a capped file is passed to recognition
\* its large rendition is at assets/unknown/<stem>.jpg.
C16_PublishBeforeRecognition ==
  /\ pc = "publish" =>
       /\ passed = << >>
       /\ reclassified = << >>
       /\ extCalls = atStart.extCalls
       /\ inbox = atStart.inbox
  /\ pc = "ocr" =>
       /\ \A i \in 1..Len(items) :
            passed = << >> => HasPair(assets, items[i].model, Stem(items[i].name))
       /\ \A i \in 1..Len(CappedFiles) :
            Rendition(assets, UNKNOWN_LC, FALSE, Stem(CappedFiles[i].name)) # {}

\* C16: one capped file has been recognised and another is about to be
C16_Recognising ==
  /\ pc = "ocr"
  /\ idx = 2
  /\ Len(CappedFiles) >= 2

\* the places of the final mapping that list the file of items[i]
Listed(i) == {j \in 1..Len(by_model) : EntryPath(by_model[j]) = EntryPath(items[i])}

\* the file of items[i] is listed under the code the Reconciler gave it
UnderReconciled(i, j) ==
  \E k \in 1..Len(reclassified) :
    /\ EntryPath(reclassified[k]) = EntryPath(items[i])
    /\ by_model[j].model = reclassified[k].model

\* C17: every scanned file is in the final mapping exactly once, a file
\* resolved by its filename under its filename code, a file of the
\* unresolved bucket under the code the Reconciler gave it.
C17_Conservation ==
  pc = "save" =>
    /\ Len(by_model) = Len(items)
    /\ \A i \in 1..Len(items) :
         /\ Cardinality(Listed(i)) = 1
         /\ \A j \in Listed(i) :
              IF items[i].model # UNKNOWN_LC
              THEN by_model[j].model = items[i].model
              ELSE UnderReconciled(i, j)

\* the renditions at the paths of items[i] were produced from its file
OwnsPair(i) ==
  LET e  == items[i]
      id == FileAt(inbox, EntryPath(e)).id
  IN  \A thumb \in BOOLEAN :
        \E a \in Rendition(assets, e.model, thumb, Stem(e.name)) : a.src = id

\* C18: after the publish pass, of two distinct source files of the same
\* bucket each has the renditions produced from it; they are not shared
\* with or overwritten by the other.
C18_OwnAssetPair ==
  pc = "published" =>
    \A i, j \in 1..Len(items) :
      (i # j /\ items[i].model = items[j].model) => OwnsPair(i) /\ OwnsPair(j)

(***************************************************************************)
(* The string functions called on their own: guess_model_from_filename,    *)
(* extract_model_from_text and sanitize_model_code, on every string over   *)
(* RawAlphabet of at most MaxLen characters and on the strings named       *)
(* below.  main() applies sanitize_model_code to what the other two return *)
(* (lines 225, 275) and to what it returned itself (line 278).             *)
(***************************************************************************)
IMG_1234_heic == <<"I", "M", "G", "_", "1", "2", "3", "4", ".", "h", "e", "i", "c">>

model_D5301_1_jpg ==
  <<"m", "o", "d", "e", "l", "-", "D", "5", "3", "0", "1", "-", "1", ".", "j", "p", "g">>

D5301_1 == <<"D", "5", "3", "0", "1", "-", "1">>

ABC_002_png == <<"A", "B", "C", "_", "0", "0", "2", ".", "p", "n", "g">>

ABC == <<"A", "B", "C">>

MADE_IN_CHINA_XL ==
  <<"M", "A", "D", "E", " ", "I", "N", " ", "C", "H", "I", "N", "A", " ", "X", "L">>

RawAlphabet == {"a", "M", "1", "-", "_", ".", " "}

\* the strings over RawAlphabet of at most n characters
RECURSIVE StringsUpTo(_)
StringsUpTo(n) ==
  IF n = 0 THEN {<< >>}
  ELSE LET shorter == StringsUpTo(n - 1)
       IN  shorter \cup {Append(t, c) : t \in shorter, c \in RawAlphabet}

Raw ==
  StringsUpTo(MaxLen)
    \cup {IMG_1234_heic, model_D5301_1_jpg, ABC_002_png, MADE_IN_CHINA_XL,
          IMG_0001_HEIC, D5301_1_jpg, ab_1_jpg, D5301_2}

\* main() has not run and has nothing to run on
NoRun ==
  /\ inbox = {}
  /\ assets = {}
  /\ cacheFile = {}
  /\ cacheKind = "missing"
  /\ now = 1
  /\ run = 0
  /\ pc = "idle"
  /\ idx = 1
  /\ OCR_CAP = DefaultCap
  /\ sipsWorks = TRUE
  /\ items = << >>
  /\ ocr_cache = {}
  /\ text = << >>
  /\ reclassified = << >>
  /\ by_model = << >>
  /\ extCalls = [p \in Catalogue |-> 0]
  /\ failed = {}
  /\ passed = << >>
  /\ regen = {}
  /\ renamed = {}
  /\ atStart = [inbox |-> {}, assets |-> {}, extCalls |-> extCalls,
                failed |-> {}]
  /\ dropped = {}

CallInit ==
  /\ NoRun
  /\ NoPass
  /\ NoImport
  /\ called = "none"
  /\ arg \in Raw
  /\ ret = << >>

\* guess_model_from_filename(arg)
CallGuess ==
  /\ called = "none"
  /\ called' = "guess"
  /\ ret' = guess_model_from_filename(arg)
  /\ UNCHANGED << arg, mainVars, pubVars, impVars >>

\* extract_model_from_text(arg)
CallExtract ==
  /\ called = "none"
  /\ called' = "extract"
  /\ ret' = extract_model_from_text(arg)
  /\ UNCHANGED << arg, mainVars, pubVars, impVars >>

\* sanitize_model_code of the raw string, or of what the last call returned
CallSanitize ==
  /\ arg' = IF called = "none" THEN arg ELSE ret
  /\ called' = "sanitize"
  /\ ret' = sanitize_model_code(arg')
  /\ UNCHANGED << mainVars, pubVars, impVars >>

CallNext ==
  \/ CallGuess
  \/ CallExtract
  \/ CallSanitize

CallSpec == CallInit /\ [][CallNext]_vars

\* C11: filename extraction maps IMG_1234.heic to unknown,
\* model-D5301-1.jpg to D5301-1 and ABC_002.png to ABC.
C11_FilenameExamples ==
  called = "guess" =>
    /\ (arg = IMG_1234_heic => ret = UNKNOWN_LC)
    /\ (arg = model_D5301_1_jpg => ret = D5301_1)
    /\ (arg = ABC_002_png => ret = ABC)

\* C12: text made only of blacklisted noise words ("MADE IN CHINA XL")
\* gives unknown, and no blacklisted word is returned as the code.
C12_BlacklistHolds ==
  called = "extract" =>
    /\ ret \notin blacklist
    /\ (arg = MADE_IN_CHINA_XL => ret = UNKNOWN_LC)

\* [A-Z0-9._-]
CodeAlphabet == UpperLetters \cup Digits \cup {".", "_", "-"}

\* C13: for every raw string s, sanitize(s) is non-empty, consists only of
\* characters of [A-Z0-9._-], and sanitize(sanitize(s)) = sanitize(s).
C13_SanitizeClosedIdempotent ==
  called = "sanitize" =>
    /\ ret # << >>
    /\ \A i \in 1..Len(ret) : ret[i] \in CodeAlphabet
    /\ sanitize_model_code(ret) = ret

\* C13: a raw string that every step of sanitize changes has been sanitized
C13_Sanitized ==
  /\ called = "sanitize"
  /\ arg = <<" ", "a", "-">>
  /\ ret = <<"A">>

(***************************************************************************)
(* The publish pass of one source file step by step (lines 198-204 for the *)
(* large rendition, 206-212 for the thumbnail).  The process can be killed *)
(* between two steps and in the middle of a copy or of a resize; the next  *)
(* run starts the pass again.  /usr/bin/sips rewrites the temporary file   *)
(* as a JPEG of the time of day, or fails and leaves it as it is; its exit *)
(* status is not looked at.                                                *)
(***************************************************************************)
Kinds == {"large", "thumb"}

Steps == {"check", "unlink", "copy", "sips", "replace"}

\* what may be at a rendition's path when the first pass starts: nothing, a
\* rendition older than the source, a rendition not older than it
OldDst ==
  {NoFile, [content |-> "jpeg", mtime |-> 0],
   [content |-> "jpeg", mtime |-> MaxMtime]}

PublishInit ==
  /\ NoRun
  /\ NoCall
  /\ NoImport
  /\ files \in [Kinds -> {[tmp |-> NoFile, dst |-> d] : d \in OldDst}]
  /\ step = "check"
  /\ kind = "large"
  /\ srcMtime \in Mtimes
  /\ clock = 2
  /\ passes = 1
  /\ leftover = FALSE

\* lines 195-196 on the rendition of kind k
dst_needs_update(F, k) ==
  \/ F[k].dst.content = "none"
  \/ srcMtime > F[k].dst.mtime

\* a copy straight to the rendition's path
Copy2ToDst(F, k, c) == [F EXCEPT ![k].dst = c]

\* lines 202 / 210: shutil.copy2(src, tmp) has written c at the temporary path
copy2(F, k, c) == [F EXCEPT ![k].tmp = c]

\* lines 204 / 212: tmp.replace(dst)
replace(F, k) == [F EXCEPT ![k].dst = F[k].tmp, ![k].tmp = NoFile]

\* the pass goes on after the rendition of kind k
AfterKind(k) == IF k = "large" THEN "check" ELSE "done"

\* lines 198 / 206
CheckStep ==
  /\ step = "check"
  /\ IF dst_needs_update(files, kind)
     THEN step' = "unlink" /\ kind' = kind
     ELSE step' = AfterKind(kind) /\ kind' = "thumb"
  /\ UNCHANGED << files, srcMtime, clock, passes, leftover, mainVars, calls,
                  impVars >>

\* lines 199-201 / 207-209
UnlinkStep ==
  /\ step = "unlink"
  /\ files' = [files EXCEPT ![kind].tmp = NoFile]
  /\ step' = "copy"
  /\ UNCHANGED << kind, srcMtime, clock, passes, leftover, mainVars, calls,
                  impVars >>

\* lines 202 / 210: copy2 keeps the modification time of the source
CopyStep ==
  /\ step = "copy"
  /\ files' = copy2(files, kind, [content |-> "copy", mtime |-> srcMtime])
  /\ step' = "sips"
  /\ UNCHANGED << kind, srcMtime, clock, passes, leftover, mainVars, calls,
                  impVars >>

\* lines 203 / 211
SipsStep ==
  /\ step = "sips"
  /\ \E works \in BOOLEAN :
       files' = IF works
                THEN [files EXCEPT ![kind].tmp = [content |-> "jpeg", mtime |-> clock]]
                ELSE files
  /\ step' = "replace"
  /\ UNCHANGED << kind, srcMtime, clock, passes, leftover, mainVars, calls,
                  impVars >>

\* lines 204 / 212
ReplaceStep ==
  /\ step = "replace"
  /\ files' = replace(files, kind)
  /\ step' = AfterKind(kind)
  /\ kind' = "thumb"
  /\ UNCHANGED << srcMtime, clock, passes, leftover, mainVars, calls,
                  impVars >>

\* the process is killed before the next step, or in the middle of it when
\* the step writes a file (copy2, sips)
Crash ==
  /\ step \in Steps
  /\ \E mid \in BOOLEAN :
       files' = IF mid /\ step = "copy"
                  THEN copy2(files, kind, [content |-> "partial", mtime |-> clock])
                ELSE IF mid /\ step = "sips"
                  THEN [files EXCEPT ![kind].tmp = [content |-> "partial", mtime |-> clock]]
                ELSE files
  /\ step' = "crashed"
  /\ UNCHANGED << kind, srcMtime, clock, passes, leftover, mainVars, calls,
                  impVars >>

\* the next run of main() starts the pass again
NextPass ==
  /\ step \in {"done", "crashed"}
  /\ passes < MaxPasses
  /\ step' = "check"
  /\ kind' = "large"
  /\ clock' = clock + 1
  /\ passes' = passes + 1
  /\ leftover' = \E k \in Kinds : files[k].tmp.content # "none"
  /\ UNCHANGED << files, srcMtime, mainVars, calls,
                  impVars >>

PublishNext ==
  \/ CheckStep
  \/ UnlinkStep
  \/ CopyStep
  \/ SipsStep
  \/ ReplaceStep
  \/ Crash
  \/ NextPass

PublishSpec == PublishInit /\ [][PublishNext]_vars

\* C15: wherever the pass is killed, the rendition's path holds nothing, the
\* previous complete rendition or a completely written new one; a file not
\* written to its end is only at the temporary path; and a pass that runs to
\* its end after a killed one leaves no temporary file and a rendition at
\* each path.
C15_AtomicRegeneration ==
  /\ \A k \in Kinds : files[k].dst.content # "partial"
  /\ step = "done" =>
       \A k \in Kinds :
         /\ files[k].tmp.content = "none"
         /\ files[k].dst.content \in {"jpeg", "copy"}

\* C15: a pass has run to its end that found a file left at the temporary
\* path by a killed one
C15_Recovered ==
  /\ step = "done"
  /\ leftover
  /\ passes >= 2

(***************************************************************************)
(* scripts/import_from_downloads.py: the string functions.                 *)
(***************************************************************************)
\* None
NoModel == << >>

UNNAMED == <<"U", "N", "N", "A", "M", "E", "D">>

AllDigits(s) == \A i \in 1..Len(s) : s[i] \in Digits

\* re.sub(r"[^A-Z0-9-]+", "", s)
KeepCodeChars(s) ==
  SelectSeq(s, LAMBDA c : c \in UpperLetters \cup Digits \cup {"-"})

\* PAT_D5 : ^D\d{5}$
MatchD5(s) == Len(s) = 6 /\ s[1] = "D" /\ AllDigits(Slice(s, 2, 6))

\* PAT_DCODE : ^D\d{4}-\d{2}$
MatchDCode(s) ==
  /\ Len(s) = 8
  /\ s[1] = "D"
  /\ AllDigits(Slice(s, 2, 5))
  /\ s[6] = "-"
  /\ AllDigits(Slice(s, 7, 8))

\* PAT_NUM.match(s), ^(?:D)?(\d{4})-(\d{1,2}) : the two groups, or NoMatch
MatchNum(s) ==
  LET o == IF s # << >> /\ s[1] = "D" THEN 1 ELSE 0
  IN  IF /\ Len(s) >= o + 6
         /\ AllDigits(Slice(s, o + 1, o + 4))
         /\ s[o + 5] = "-"
         /\ s[o + 6] \in Digits
      THEN [ok |-> TRUE, g1 |-> Slice(s, o + 1, o + 4),
            g2 |-> IF Len(s) >= o + 7 /\ s[o + 7] \in Digits
                   THEN Slice(s, o + 6, o + 7) ELSE Slice(s, o + 6, o + 6)]
      ELSE [ok |-> FALSE, g1 |-> << >>, g2 |-> << >>]

\* lines 34-48
norm_model_from_stem(stem) ==
  LET s == KeepCodeChars(StripSpaces(Upper(stem)))
      m == MatchNum(s)
  IN  IF MatchD5(s) THEN s
      ELSE IF m.ok
        THEN (<<"D">> \o m.g1 \o <<"-">>)
               \o (IF Len(m.g2) = 1 THEN <<"0">> \o m.g2 ELSE m.g2)
      ELSE IF MatchDCode(s) THEN s
      ELSE NoModel

\* re.sub(r"\s+", " ", name)
RECURSIVE CollapseSpaces(_)
CollapseSpaces(s) ==
  IF s = << >> THEN s
  ELSE LET rest == CollapseSpaces(Tail(s))
       IN  IF Head(s) = " " /\ rest # << >> /\ Head(rest) = " "
           THEN rest
           ELSE <<Head(s)>> \o rest

\* lines 51-58, on the stem of the file
product_name_from_file(stem) ==
  LET name == StripSpaces(SelectSeq(StripSpaces(stem), LAMBDA c : c # "#"))
      one  == CollapseSpaces(name)
  IN  IF one = << >> THEN UNNAMED ELSE one

\* re.sub(r"[^A-Z0-9-]+", "-", s) followed by re.sub(r"-+", "-", s)
RECURSIVE SafeDashRuns(_)
SafeDashRuns(s) ==
  IF s = << >> THEN s
  ELSE LET c    == IF Head(s) \in UpperLetters \cup Digits THEN Head(s) ELSE "-"
           rest == SafeDashRuns(Tail(s))
       IN  IF c = "-" /\ rest # << >> /\ Head(rest) = "-"
           THEN rest
           ELSE <<c>> \o rest

\* str.strip("-")
RECURSIVE StripDashes(_)
StripDashes(s) ==
  IF s = << >> THEN s
  ELSE IF Head(s) = "-" THEN StripDashes(Tail(s))
  ELSE IF s[Len(s)] = "-" THEN StripDashes(SubSeq(s, 1, Len(s) - 1))
  ELSE s

\* lines 61-70
safe_code_from_name(name) ==
  LET s == StripSpaces(Upper(name))
      t == StripDashes(SafeDashRuns(s))
  IN  IF AllDigits(s) /\ Len(s) >= 2 /\ Len(s) <= 10 THEN s
      ELSE IF t = << >> THEN UNKNOWN_UC
      ELSE t

\* str(i) for i >= 0
RECURSIVE Dec(_)
Dec(i) ==
  IF i < 10 THEN <<Chars[Ord("0") + i]>>
  ELSE Dec(i \div 10) \o <<Chars[Ord("0") + (i % 10)]>>

(***************************************************************************)
(* scripts/import_from_downloads.py: main().  The directories are named by *)
(* short stand-ins: Photos for the directory the candidates must be under, *)
(* I4 for a directory of i4ToolsDownloads, Imported for                    *)
(* _imported_to_photo_site.  The archive is under DOWNLOADS and keeps the  *)
(* relative path, so what a run archived is a candidate of the next run.   *)
(* Of the category map only the codes that get an entry are followed.      *)
(***************************************************************************)
Photos == <<"p">>

I4 == <<"i">>

Imported == <<"_">>

DirX == <<"x">>

DirY == <<"y">>

ab_jpg == <<"a", "b", ".", "j", "p", "g">>

ab_hash_jpg == <<"a", "b", "#", ".", "j", "p", "g">>

d5301_1_jpg == <<"d", "5", "3", "0", "1", "-", "1", ".", "j", "p", "g">>

ab_txt == <<"a", "b", ".", "t", "x", "t">>

AB_JPG == <<"A", "B", ".", "J", "P", "G">>

AB_2_JPG == <<"A", "B", "_", "2", ".", "J", "P", "G">>

D5301_01_JPG == <<"D", "5", "3", "0", "1", "-", "0", "1", ".", "J", "P", "G">>

\* the files that may be under DOWNLOADS when the first import starts
DownloadCatalogue ==
  { [dir |-> <<DirX, Photos>>, name |-> ab_jpg],
    [dir |-> <<DirY, Photos>>, name |-> ab_jpg],
    [dir |-> <<DirX, Photos>>, name |-> ab_hash_jpg],
    [dir |-> <<DirX, Photos>>, name |-> d5301_1_jpg],
    [dir |-> <<DirX, Photos>>, name |-> ab_txt],
    [dir |-> <<DirX>>, name |-> ab_jpg],
    [dir |-> <<I4, Photos>>, name |-> ab_jpg] }

\* the files that may be in INBOX when the first import starts
InboxCatalogue == {AB_JPG, AB_2_JPG, D5301_01_JPG}

EXTS ==
  { <<".", "j", "p", "g">>, <<".", "j", "p", "e", "g">>, <<".", "p", "n", "g">>,
    <<".", "w", "e", "b", "p">>, <<".", "h", "e", "i", "c">> }

InSeq(x, seq) == \E i \in 1..Len(seq) : seq[i] = x

\* lines 104-114
IsCandidate(p) ==
  /\ Lower(Suffix(p.name)) \in EXTS
  /\ ~InSeq(I4, p.dir)
  /\ InSeq(Photos, p.dir)

\* sorted(candidates): paths compare part by part
RECURSIVE SortedCandidates(_)
SortedCandidates(S) ==
  IF S = {} THEN << >>
  ELSE LET m == CHOOSE x \in S :
                  \A y \in S \ {x} :
                    PartsLess(Append(x.dir, x.name), Append(y.dir, y.name))
       IN  <<m>> \o SortedCandidates(S \ {m})

\* f"{code}_{i}{p.suffix.upper()}"
Numbered(code, ext, i) == ((code \o <<"_">>) \o Dec(i)) \o ext

\* lines 141-146
RECURSIVE FirstFree(_, _, _, _)
FirstFree(names, code, ext, i) ==
  IF Numbered(code, ext, i) \notin names THEN Numbered(code, ext, i)
  ELSE FirstFree(names, code, ext, i + 1)

\* a destination chosen without looking at INBOX
DestinationPlain(names, code, ext) == code \o ext

\* lines 139-146
Destination(names, code, ext) ==
  IF (code \o ext) \notin names THEN code \o ext
  ELSE FirstFree(names, code, ext, 2)

\* lines 149-150: archive / p.relative_to(DOWNLOADS)
Archived(p) == [dir |-> <<Imported, Dec(stamp)>> \o p.dir, name |-> p.name]

ImportInit ==
  /\ NoRun
  /\ NoCall
  /\ NoPass
  /\ downloads \in {S \in SUBSET DownloadCatalogue :
                      Cardinality(S) >= 1 /\ Cardinality(S) <= MaxDownloads}
  /\ inbox_dir \in SUBSET InboxCatalogue
  /\ catmapFile = {}
  /\ catmap = {}
  /\ stamp = 0
  /\ candidates = << >>
  /\ ci = 1
  /\ ipc = "idle"
  /\ copies = << >>

\* lines 89-118
StartImport ==
  /\ ipc = "idle"
  /\ stamp < MaxImports
  /\ catmap' = catmapFile
  /\ stamp' = stamp + 1
  /\ candidates' = SortedCandidates({p \in downloads : IsCandidate(p)})
  /\ ci' = 1
  /\ copies' = << >>
  /\ ipc' = "loop"
  /\ UNCHANGED << downloads, inbox_dir, catmapFile, mainVars, calls, pubVars >>

\* lines 120-156 for one candidate
ImportFile ==
  /\ ipc = "loop"
  /\ ci <= Len(candidates)
  /\ LET p     == candidates[ci]
         ext   == Upper(Suffix(p.name))
         model == norm_model_from_stem(Stem(p.name))
         code  == IF model # NoModel THEN model
                  ELSE safe_code_from_name(product_name_from_file(Stem(p.name)))
         dest  == Destination(inbox_dir, code, ext)
     IN  IF model # NoModel /\ (model \o ext) \in inbox_dir
         THEN UNCHANGED << downloads, inbox_dir, catmap, copies >>
         ELSE /\ catmap' = catmap \cup {code}
              /\ downloads' = (downloads \ {p}) \cup {Archived(p)}
              /\ inbox_dir' = inbox_dir \cup {dest}
              /\ copies' = Append(copies,
                   [src |-> p, code |-> code, ext |-> ext, dest |-> dest,
                    before |-> inbox_dir])
  /\ ci' = ci + 1
  /\ UNCHANGED << catmapFile, stamp, candidates, ipc, mainVars, calls, pubVars >>

\* lines 158-164
FinishImport ==
  /\ ipc = "loop"
  /\ ci > Len(candidates)
  /\ catmapFile' = catmap
  /\ ipc' = "idle"
  /\ UNCHANGED << downloads, inbox_dir, catmap, stamp, candidates, ci, copies,
                  mainVars, calls, pubVars >>

ImportNext ==
  \/ StartImport
  \/ ImportFile
  \/ FinishImport

ImportSpec == ImportInit /\ [][ImportNext]_vars

\* C19: the destination of every copy does not exist when the copy is made:
\* it is <code><EXT> when that name is free, else <code>_<i><EXT> with the
\* smallest free i >= 2; and at the end of the run every imported candidate
\* has left its place for the archive and has its copy in INBOX.
C19_NeverOverwrites ==
  /\ \A k \in 1..Len(copies) :
       LET c == copies[k]
       IN  /\ c.dest \notin c.before
           /\ IF (c.code \o c.ext) \notin c.before
              THEN c.dest = c.code \o c.ext
              ELSE \E n \in 2..(Cardinality(c.before) + 2) :
                     /\ c.dest = Numbered(c.code, c.ext, n)
                     /\ \A m \in 2..(n - 1) :
                          Numbered(c.code, c.ext, m) \in c.before
  /\ (ipc = "idle" /\ stamp >= 1) =>
       \A k \in 1..Len(copies) :
         /\ copies[k].dest \in inbox_dir
         /\ copies[k].src \notin downloads
         /\ Archived(copies[k].src) \in downloads

\* C19: a run has ended that imported a candidate whose <code><EXT> and
\* <code>_2<EXT> were both taken
C19_Numbered ==
  /\ ipc = "idle"
  /\ \E k \in 1..Len(copies) :
       copies[k].dest = Numbered(copies[k].code, copies[k].ext, 3)

====
